---- MODULE Spec2Model ----
(***************************************************************************)
(* A model of the Bouns bot (src/main.py, src/twitter_adapter.py): the     *)
(* polling loop BounsBot.main_loop with its retrying tokenURI fetch, the   *)
(* metadata decoder get_svg, the rasterizer svg_to_png, the publish step   *)
(* post_tweet and the sleep computation _calculate_sleep_time.             *)
(***************************************************************************)
EXTENDS Integers, Sequences, FiniteSets, TLC

(***************************************************************************)
(* Bounds of the model.                                                    *)
(***************************************************************************)
\* noun ids the auction contract may report are 0..MaxNounId
MaxNounId == 2
\* number of polls the loop issues after INIT before the model stops
MaxCycles == 3

(***************************************************************************)
(* Program constants.                                                      *)
(***************************************************************************)
\* main.py:214
max_retries == 5
\* main.py:215
initial_retry_delay == 1
\* main.py:108 and main.py:112, "no longer than 5 minutes"
max_sleep == 300

NounIds == 0..MaxNounId
\* readings of the wall clock
ClockValues == {1000, 1200}
\* end times the polled auction may carry: 120 s after the first clock
\* reading (and before the second), and far after both
EndTimes == {1120, 2000}

(***************************************************************************)
(* AuctionData (main.py:12-19) as _get_current_auction builds it.  Only    *)
(* noun_id, end_time and settled are ever read by the loop.                *)
(***************************************************************************)
AuctionData ==
    [noun_id : NounIds, amount : {0}, start_time : {0}, end_time : EndTimes,
     bidder : {"0x0"}, settled : BOOLEAN]

\* the local current_auction before its first assignment (main.py:206)
Unbound ==
    [noun_id |-> -1, amount |-> 0, start_time |-> 0, end_time |-> 0,
     bidder |-> "", settled |-> FALSE]

(***************************************************************************)
(* Token URIs.  A URI is described by the layers get_svg peels off: the    *)
(* optional JSON-data prefix, the outer base64 text, the JSON object, the  *)
(* optional SVG-data prefix of its image field and the inner base64 text.  *)
(***************************************************************************)
Payloads == {"svg_a", "not_svg"}

TokenURIs ==
    {[json_prefix |-> TRUE,  outer |-> "ok", svg_prefix |-> TRUE,
      inner_b64_ok |-> TRUE, svg |-> "svg_a"],
     [json_prefix |-> FALSE, outer |-> "ok", svg_prefix |-> FALSE,
      inner_b64_ok |-> TRUE, svg |-> "not_svg"],
     [json_prefix |-> TRUE,  outer |-> "bad_base64", svg_prefix |-> TRUE,
      inner_b64_ok |-> TRUE, svg |-> "svg_a"],
     [json_prefix |-> TRUE,  outer |-> "no_image", svg_prefix |-> TRUE,
      inner_b64_ok |-> TRUE, svg |-> "svg_a"],
     [json_prefix |-> TRUE,  outer |-> "ok", svg_prefix |-> TRUE,
      inner_b64_ok |-> FALSE, svg |-> "svg_a"]}

\* the local uri before its first assignment (main.py:219)
NoURI ==
    [json_prefix |-> FALSE, outer |-> "unbound", svg_prefix |-> FALSE,
     inner_b64_ok |-> FALSE, svg |-> ""]

\* byte buffers: the vector bytes a URI carries, or their rasterization
VectorBytes(p) == [kind |-> "vector", src |-> p]
RasterBytes(p) == [kind |-> "raster", src |-> p]
\* the locals svg_bytes and png_bytes before their first assignment
NoBytes == [kind |-> "unbound", src |-> ""]

\* the two ways a call ends: it raises an exception or returns a value
Raised(e) == [raised |-> TRUE, error |-> e, value |-> NoBytes]
Returned(v) == [raised |-> FALSE, error |-> "", value |-> v]

\* one entry of the call log of a poll cycle: the call, the noun id it was
\* made for, whether it returned (ok) or failed, the seconds slept (for a
\* sleep), the token URI it returned or was given, the bytes it returned or
\* was given
Event(c, i, o, d, u, b) ==
    [call |-> c, id |-> i, ok |-> o, delay |-> d, uri |-> u, bytes |-> b]

VARIABLES
    pc,               \* position of main_loop
    credentials,      \* the Twitter credentials set in the environment
    constructor_raised, \* whether TwitterAdapter(...) raised in __init__
    twitter,          \* self.twitter: "adapter" or "None"
    last_noun_id,     \* the progress marker
    current_auction,  \* local of main_loop
    attempt,          \* loop variable of the retry loop
    retry_delay,      \* local of main_loop
    uri,              \* local of main_loop
    svg_bytes,        \* local of main_loop
    png_bytes,        \* local of main_loop
    current_time,     \* the clock read by _calculate_sleep_time
    sleep_time,       \* the last between-poll sleep
    \* history of the run
    init_noun_id,     \* the id read at INIT
    cycle,            \* number of polls issued after INIT
    poll_result,      \* outcome of the latest poll: "none", "ok", "failed"
    marker_at_poll,   \* last_noun_id when the latest poll was issued
    cycle_log,        \* calls made in the latest poll cycle, in order
    unit_outcome,     \* how the unit of the latest cycle ended
    calls,            \* per noun id, the calls made for it over the whole run
    vector_buffer     \* the buffer a token URI text was built from

vars ==
    <<pc, credentials, constructor_raised, twitter, last_noun_id,
      current_auction, attempt, retry_delay, uri, svg_bytes, png_bytes,
      current_time, sleep_time, init_noun_id, cycle, poll_result,
      marker_at_poll, cycle_log, unit_outcome, calls, vector_buffer>>

(***************************************************************************)
(* Pure parts of the program.                                              *)
(***************************************************************************)

\* mutant of _calculate_sleep_time: an end time in the past is not set aside
_calculate_sleep_time_NoPastCheck(auction, now) ==
    IF ~auction.settled
    THEN IF auction.end_time - now <= max_sleep
         THEN auction.end_time - now
         ELSE max_sleep
    ELSE max_sleep

\* mutant of _calculate_sleep_time: an auction ending right now counts as
\* still running
_calculate_sleep_time_OrEqual(auction, now) ==
    IF ~auction.settled /\ auction.end_time >= now
    THEN IF auction.end_time - now < max_sleep
         THEN auction.end_time - now
         ELSE max_sleep
    ELSE max_sleep

\* BounsBot._calculate_sleep_time (main.py:101-112); now is int(time.time())
_calculate_sleep_time(auction, now) ==
    IF ~auction.settled /\ auction.end_time > now
    THEN IF auction.end_time - now < max_sleep
         THEN auction.end_time - now
         ELSE max_sleep
    ELSE max_sleep

\* BounsBot._initialize_twitter (main.py:114-137): the adapter exists only
\* when the four credentials are set and its constructor does not raise
CredentialNames ==
    {"TWITTER_API_KEY", "TWITTER_API_SECRET", "TWITTER_ACCESS_TOKEN",
     "TWITTER_ACCESS_SECRET"}

\* mutant of _initialize_twitter: any configured credential gives an adapter
_initialize_twitter_AnyCredential(creds, constructor_ok) ==
    IF creds # {} /\ constructor_ok
    THEN "adapter"
    ELSE "None"

_initialize_twitter(creds, constructor_ok) ==
    IF creds = CredentialNames /\ constructor_ok
    THEN "adapter"
    ELSE "None"

\* the environments the bot is started in: every credential set, none
\* set, one missing, one only
CredentialSets ==
    {CredentialNames, {}, CredentialNames \ {"TWITTER_ACCESS_SECRET"},
     {"TWITTER_API_KEY"}}

\* mutant of get_svg: a missing image key reads as an empty image
get_svg_DefaultImage(token_uri) ==
    IF token_uri.outer \in {"bad_base64", "bad_utf8", "bad_json"}
    THEN Raised("ValueError")
    ELSE IF token_uri.outer = "no_image"
    THEN Returned(VectorBytes(""))
    ELSE IF ~token_uri.inner_b64_ok
    THEN Raised("binascii.Error")
    ELSE Returned(VectorBytes(token_uri.svg))

\* BounsBot.get_svg (main.py:139-157): the prefixes are stripped when
\* present, and each decoding step may raise
get_svg(token_uri) ==
    IF token_uri.outer = "bad_base64"
    THEN Raised("binascii.Error")
    ELSE IF token_uri.outer = "bad_utf8"
    THEN Raised("UnicodeDecodeError")
    ELSE IF token_uri.outer = "bad_json"
    THEN Raised("JSONDecodeError")
    ELSE IF token_uri.outer = "no_image"
    THEN Raised("KeyError")
    ELSE IF ~token_uri.inner_b64_ok
    THEN Raised("binascii.Error")
    ELSE Returned(VectorBytes(token_uri.svg))

\* mutant of svg_to_png: a failed conversion returns nothing
svg_to_png_NoFallback(svg, cairosvg_ok) ==
    IF cairosvg_ok THEN RasterBytes(svg.src) ELSE NoBytes

\* BounsBot.svg_to_png (main.py:159-168): the input comes back unchanged
\* when cairosvg raises
svg_to_png(svg, cairosvg_ok) ==
    IF cairosvg_ok THEN RasterBytes(svg.src) ELSE svg

\* the outcomes cairosvg.svg2png can have on a buffer
CairoOutcomes(svg) == IF svg.src = "not_svg" THEN {FALSE} ELSE BOOLEAN

\* mutant of post_tweet: the post is created whatever the upload returned
post_tweet_PostAnyway(tw, png_data, token_id, upload_ok, tweet_ok) ==
    IF tw = "None"
    THEN <<>>
    ELSE <<Event("upload_media", token_id, upload_ok, 0, NoURI, png_data),
           Event("create_tweet", token_id, tweet_ok, 0, NoURI, NoBytes)>>

\* mutant of post_tweet: a failed upload is tried a second time
post_tweet_RetryUpload(tw, png_data, token_id, upload_ok, tweet_ok) ==
    IF tw = "None"
    THEN <<>>
    ELSE IF ~upload_ok
    THEN <<Event("upload_media", token_id, FALSE, 0, NoURI, png_data),
           Event("upload_media", token_id, FALSE, 0, NoURI, png_data)>>
    ELSE <<Event("upload_media", token_id, TRUE, 0, NoURI, png_data),
           Event("create_tweet", token_id, tweet_ok, 0, NoURI, NoBytes)>>

\* BounsBot.post_tweet (main.py:170-193) with TwitterAdapter.upload_media
\* and TwitterAdapter.post_tweet (twitter_adapter.py:41-85): the calls the
\* publish step makes, in order
post_tweet(tw, png_data, token_id, upload_ok, tweet_ok) ==
    IF tw = "None"
    THEN <<>>
    ELSE IF ~upload_ok
    THEN <<Event("upload_media", token_id, FALSE, 0, NoURI, png_data)>>
    ELSE <<Event("upload_media", token_id, TRUE, 0, NoURI, png_data),
           Event("create_tweet", token_id, tweet_ok, 0, NoURI, NoBytes)>>

\* mutants of NewNounDetected: any change of id, and a repeated id, count
\* as a new noun
NewNounDetected_AnyChange(auction, last) == auction.noun_id # last
NewNounDetected_OrEqual(auction, last) == auction.noun_id >= last

\* main.py:209, "Check if we have a new noun"
NewNounDetected(auction, last) == auction.noun_id > last

\* mutant of IsLastAttempt: the comparison is off by one
IsLastAttempt_OffByOne(a) == a = max_retries

\* main.py:222, "Last attempt"
IsLastAttempt(a) == a = max_retries - 1

\* mutant of NextRetryDelay: the backoff grows linearly
NextRetryDelay_Linear(d) == d + 1
NextRetryDelay_Constant(d) == d

\* main.py:226, "Exponential backoff"
NextRetryDelay(d) == d * 2

\* mutant of MarkerAfterUnit: the assignment sits inside the try block
MarkerAfterUnit_InsideTry(last, auction, unit_raised) ==
    IF unit_raised THEN last ELSE auction.noun_id

\* main.py:237: the assignment follows the per-unit try/except, so it runs
\* whether or not processing raised
MarkerAfterUnit(last, auction, unit_raised) == auction.noun_id

\* mutant of FreshRetryState: the retry state of the previous unit is kept
FreshRetryState_Carried(previous) ==
    IF previous.retry_delay = 0
    THEN [attempt |-> 0, retry_delay |-> initial_retry_delay]
    ELSE previous

\* the retry state a unit starts with (main.py:214-216), whatever the
\* previous unit left in the two locals
FreshRetryState(previous) ==
    [attempt |-> 0, retry_delay |-> initial_retry_delay]

(***************************************************************************)
(* The state after construction: BounsBot.__init__ has run, main_loop has  *)
(* not yet made its first query.                                           *)
(***************************************************************************)
NoCalls == [started |-> 0, tokenURI |-> FALSE, post_tweet |-> 0,
            upload_media |-> 0, create_tweet |-> 0]

Init ==
    /\ pc = "init"
    /\ credentials \in CredentialSets
    /\ constructor_raised \in
           (IF credentials = CredentialNames THEN BOOLEAN ELSE {FALSE})
    /\ twitter = _initialize_twitter(credentials, ~constructor_raised)
    /\ last_noun_id = -1
    /\ current_auction = Unbound
    /\ attempt = 0
    /\ retry_delay = 0
    /\ uri = NoURI
    /\ svg_bytes = NoBytes
    /\ png_bytes = NoBytes
    /\ current_time = 1000
    /\ sleep_time = 0
    /\ init_noun_id = -1
    /\ cycle = 0
    /\ poll_result = "none"
    /\ marker_at_poll = -1
    /\ cycle_log = <<>>
    /\ unit_outcome = "none"
    /\ calls = [i \in NounIds |-> NoCalls]
    /\ vector_buffer = <<>>

(***************************************************************************)
(* INIT, main.py:199-201: the first query seeds the marker; when it raises *)
(* main_loop ends before the loop is entered.                              *)
(***************************************************************************)
InitQuery ==
    /\ pc = "init"
    /\ \E a \in AuctionData :
           /\ last_noun_id' = a.noun_id
           /\ init_noun_id' = a.noun_id
    /\ pc' = "poll"
    /\ UNCHANGED <<vector_buffer, credentials, constructor_raised, twitter,
                   current_auction, attempt, retry_delay, uri, svg_bytes,
                   png_bytes, current_time, sleep_time, cycle, poll_result,
                   marker_at_poll, cycle_log, unit_outcome, calls>>

InitQueryRaises ==
    /\ pc = "init"
    /\ pc' = "init_failed"
    /\ UNCHANGED <<vector_buffer, credentials, constructor_raised, twitter,
                   last_noun_id, current_auction, attempt, retry_delay, uri,
                   svg_bytes, png_bytes, current_time, sleep_time,
                   init_noun_id, cycle, poll_result, marker_at_poll,
                   cycle_log, unit_outcome, calls>>

(***************************************************************************)
(* POLLING, main.py:204-215 and 239-240.                                   *)
(***************************************************************************)
StartCycle(result) ==
    /\ pc = "poll"
    /\ cycle < MaxCycles
    /\ cycle' = cycle + 1
    /\ poll_result' = result
    /\ marker_at_poll' = last_noun_id
    /\ cycle_log' = <<>>
    /\ unit_outcome' = "none"

\* _get_current_auction raises: caught at main.py:239, current_auction
\* keeps whatever it held
PollRaises ==
    /\ StartCycle("failed")
    /\ pc' = "sleep"
    /\ UNCHANGED <<vector_buffer, credentials, constructor_raised, twitter,
                   last_noun_id, current_auction, attempt, retry_delay, uri,
                   svg_bytes, png_bytes, current_time, sleep_time,
                   init_noun_id, calls>>

\* the poll returns no new noun: straight to the sleep
PollNoNewNoun ==
    /\ StartCycle("ok")
    /\ \E a \in AuctionData :
           /\ ~NewNounDetected(a, last_noun_id)
           /\ current_auction' = a
    /\ pc' = "sleep"
    /\ UNCHANGED <<vector_buffer, credentials, constructor_raised, twitter,
                   last_noun_id, attempt, retry_delay, uri, svg_bytes,
                   png_bytes, current_time, sleep_time, init_noun_id, calls>>

\* the poll returns a new noun: the retry loop is set up (main.py:214-216)
PollNewNoun ==
    /\ StartCycle("ok")
    /\ \E a \in AuctionData :
           /\ NewNounDetected(a, last_noun_id)
           /\ current_auction' = a
           /\ calls' = [calls EXCEPT ![a.noun_id].started = @ + 1]
    /\ LET fresh == FreshRetryState([attempt |-> attempt,
                                      retry_delay |-> retry_delay])
       IN  /\ attempt' = fresh.attempt
           /\ retry_delay' = fresh.retry_delay
    /\ pc' = "fetch"
    /\ UNCHANGED <<vector_buffer, credentials, constructor_raised, twitter,
                   last_noun_id, uri, svg_bytes, png_bytes, current_time,
                   sleep_time, init_noun_id>>

(***************************************************************************)
(* PROCESSING, main.py:212-237.                                            *)
(***************************************************************************)
\* the per-unit try/except is left, main.py:234-237
EndUnit(unit_raised, outcome) ==
    /\ last_noun_id' =
           MarkerAfterUnit(last_noun_id, current_auction, unit_raised)
    /\ unit_outcome' = outcome
    /\ pc' = "sleep"

\* one pass of the retry loop whose tokenURI call returns (main.py:218-220)
FetchReturns ==
    /\ pc = "fetch"
    /\ attempt < max_retries
    /\ \E u \in TokenURIs : uri' = u
    /\ cycle_log' =
           Append(cycle_log,
                  Event("tokenURI", current_auction.noun_id, TRUE, 0, uri',
                        NoBytes))
    /\ calls' = [calls EXCEPT ![current_auction.noun_id].tokenURI = TRUE]
    /\ pc' = "process"
    /\ UNCHANGED <<vector_buffer, credentials, constructor_raised, twitter,
                   last_noun_id, current_auction, attempt, retry_delay,
                   svg_bytes, png_bytes, current_time, sleep_time,
                   init_noun_id, cycle, poll_result, marker_at_poll,
                   unit_outcome>>

\* one pass whose tokenURI call raises and that is not the last: the loop
\* sleeps retry_delay and doubles it (main.py:221-226).  A for loop that
\* runs out of passes falls through to main.py:228.
FetchRaisesRetry ==
    /\ pc = "fetch"
    /\ attempt < max_retries
    /\ ~IsLastAttempt(attempt)
    /\ cycle_log' =
           cycle_log \o
           <<Event("tokenURI", current_auction.noun_id, FALSE, 0, NoURI,
                   NoBytes),
             Event("sleep", current_auction.noun_id, TRUE, retry_delay,
                   NoURI, NoBytes)>>
    /\ calls' = [calls EXCEPT ![current_auction.noun_id].tokenURI = TRUE]
    /\ retry_delay' = NextRetryDelay(retry_delay)
    /\ attempt' = attempt + 1
    /\ pc' = IF attempt + 1 < max_retries THEN "fetch" ELSE "process"
    /\ UNCHANGED <<vector_buffer, credentials, constructor_raised, twitter,
                   last_noun_id, current_auction, uri, svg_bytes, png_bytes,
                   current_time, sleep_time, init_noun_id, cycle, poll_result,
                   marker_at_poll, unit_outcome>>

\* the last pass raises: the exception is re-raised (main.py:222-223) and
\* caught at the per-unit boundary (main.py:234-235)
FetchRaisesLast ==
    /\ pc = "fetch"
    /\ attempt < max_retries
    /\ IsLastAttempt(attempt)
    /\ cycle_log' =
           Append(cycle_log,
                  Event("tokenURI", current_auction.noun_id, FALSE, 0, NoURI,
                        NoBytes))
    /\ calls' = [calls EXCEPT ![current_auction.noun_id].tokenURI = TRUE]
    /\ EndUnit(TRUE, "fetch_failed")
    /\ UNCHANGED <<vector_buffer, credentials, constructor_raised, twitter,
                   current_auction, attempt, retry_delay, uri, svg_bytes,
                   png_bytes, current_time, sleep_time, init_noun_id, cycle,
                   poll_result, marker_at_poll>>

\* main.py:228: reading an unassigned uri raises before get_svg is entered
Decode(u) == IF u = NoURI THEN Raised("UnboundLocalError") ELSE get_svg(u)

\* get_svg raises: caught at the per-unit boundary, nothing is published
ProcessDecodeRaises ==
    /\ pc = "process"
    /\ Decode(uri).raised
    /\ cycle_log' =
           Append(cycle_log,
                  Event("get_svg", current_auction.noun_id, FALSE, 0, uri,
                        NoBytes))
    /\ EndUnit(TRUE, "decode_failed")
    /\ UNCHANGED <<vector_buffer, credentials, constructor_raised, twitter,
                   current_auction, attempt, retry_delay, uri, svg_bytes,
                   png_bytes, current_time, sleep_time, init_noun_id, cycle,
                   poll_result, marker_at_poll, calls>>

CountCalls(log, c) == Len(SelectSeq(log, LAMBDA e : e.call = c))

\* get_svg returns: rasterize and publish (main.py:228-232)
ProcessPublishes ==
    /\ pc = "process"
    /\ ~Decode(uri).raised
    /\ svg_bytes' = Decode(uri).value
    /\ \E cairosvg_ok \in CairoOutcomes(svg_bytes'),
          upload_ok \in BOOLEAN, tweet_ok \in BOOLEAN :
           LET id == current_auction.noun_id
               published ==
                   post_tweet(twitter, png_bytes', id, upload_ok, tweet_ok)
           IN  /\ png_bytes' = svg_to_png(svg_bytes', cairosvg_ok)
               /\ cycle_log' =
                      cycle_log \o
                      <<Event("get_svg", id, TRUE, 0, uri, svg_bytes'),
                        Event("svg_to_png", id, cairosvg_ok, 0, NoURI,
                              svg_bytes'),
                        Event("post_tweet", id, TRUE, 0, NoURI, png_bytes')>>
                      \o published
               /\ calls' =
                      [calls EXCEPT
                          ![id].post_tweet = @ + 1,
                          ![id].upload_media =
                              @ + CountCalls(published, "upload_media"),
                          ![id].create_tweet =
                              @ + CountCalls(published, "create_tweet")]
    /\ EndUnit(FALSE, "published")
    /\ UNCHANGED <<vector_buffer, credentials, constructor_raised, twitter,
                   current_auction, attempt, retry_delay, uri, current_time,
                   sleep_time, init_noun_id, cycle, poll_result,
                   marker_at_poll>>

(***************************************************************************)
(* Sleep, main.py:242-244.                                                 *)
(***************************************************************************)
\* the sleep is computed from current_auction, fresh or left over from an
\* earlier iteration
Sleep ==
    /\ pc = "sleep"
    /\ current_auction # Unbound
    /\ \E now \in ClockValues :
           /\ now >= current_time
           /\ current_time' = now
           /\ sleep_time' = _calculate_sleep_time(current_auction, now)
    /\ pc' = "poll"
    /\ UNCHANGED <<vector_buffer, credentials, constructor_raised, twitter,
                   last_noun_id, current_auction, attempt, retry_delay, uri,
                   svg_bytes, png_bytes, init_noun_id, cycle, poll_result,
                   marker_at_poll, cycle_log, unit_outcome, calls>>

\* current_auction was never assigned: main.py:243 raises UnboundLocalError
\* outside every try block and main_loop ends
SleepUnboundAuction ==
    /\ pc = "sleep"
    /\ current_auction = Unbound
    /\ pc' = "terminated"
    /\ UNCHANGED <<vector_buffer, credentials, constructor_raised, twitter,
                   last_noun_id, current_auction, attempt, retry_delay, uri,
                   svg_bytes, png_bytes, current_time, sleep_time,
                   init_noun_id, cycle, poll_result, marker_at_poll,
                   cycle_log, unit_outcome, calls>>

Next ==
    \/ InitQuery
    \/ InitQueryRaises
    \/ PollRaises
    \/ PollNoNewNoun
    \/ PollNewNoun
    \/ FetchReturns
    \/ FetchRaisesRetry
    \/ FetchRaisesLast
    \/ ProcessDecodeRaises
    \/ ProcessPublishes
    \/ Sleep
    \/ SleepUnboundAuction

Spec == Init /\ [][Next]_vars

(***************************************************************************)
(* _calculate_sleep_time on its own: the snapshot and the clock reading    *)
(* are drawn around the points where its result changes, then the          *)
(* function is applied.                                                    *)
(***************************************************************************)
SleepClockValues == 1000..1002
SleepEndTimes == {990, 1120, 2000} \cup 998..1004 \cup 1298..1304

SleepInit ==
    /\ pc = "sleep_call"
    /\ credentials = {}
    /\ constructor_raised = FALSE
    /\ twitter = "None"
    /\ last_noun_id = 0
    /\ current_auction \in
           [noun_id : {0}, amount : {0}, start_time : {0},
            end_time : SleepEndTimes, bidder : {"0x0"}, settled : BOOLEAN]
    /\ attempt = 0
    /\ retry_delay = 0
    /\ uri = NoURI
    /\ svg_bytes = NoBytes
    /\ png_bytes = NoBytes
    /\ current_time \in SleepClockValues
    /\ sleep_time = 0
    /\ init_noun_id = 0
    /\ cycle = 0
    /\ poll_result = "none"
    /\ marker_at_poll = 0
    /\ cycle_log = <<>>
    /\ unit_outcome = "none"
    /\ calls = [i \in NounIds |-> NoCalls]
    /\ vector_buffer = <<>>

CallCalculateSleepTime ==
    /\ pc = "sleep_call"
    /\ sleep_time' = _calculate_sleep_time(current_auction, current_time)
    /\ pc' = "sleep_returned"
    /\ UNCHANGED <<vector_buffer, credentials, constructor_raised, twitter,
                   last_noun_id, current_auction, attempt, retry_delay, uri,
                   svg_bytes, png_bytes, current_time, init_noun_id, cycle,
                   poll_result, marker_at_poll, cycle_log, unit_outcome,
                   calls>>

SleepNext == CallCalculateSleepTime

SleepSpec == SleepInit /\ [][SleepNext]_vars

(***************************************************************************)
(* get_svg on text.  A str is the sequence of its character codes, a bytes *)
(* object the sequence of its values in 0..255.                            *)
(***************************************************************************)
\* "data:application/json;base64," (main.py:142)
json_prefix ==
    <<100, 97, 116, 97, 58, 97, 112, 112, 108, 105, 99, 97, 116, 105,
      111, 110, 47, 106, 115, 111, 110, 59, 98, 97, 115, 101, 54, 52,
      44>>

\* "data:image/svg+xml;base64," (main.py:152)
svg_prefix ==
    <<100, 97, 116, 97, 58, 105, 109, 97, 103, 101, 47, 115, 118, 103,
      43, 120, 109, 108, 59, 98, 97, 115, 101, 54, 52, 44>>

\* "image", the key read at main.py:151
image_key ==
    <<105, 109, 97, 103, 101>>

\* s[n:]
DropFirst(s, n) == SubSeq(s, n + 1, Len(s))

\* s.startswith(prefix)
startswith(s, prefix) ==
    /\ Len(s) >= Len(prefix)
    /\ SubSeq(s, 1, Len(prefix)) = prefix

\* mutant of StripPrefix: the prefix is left in place
StripPrefix_Keep(s, prefix) == s

\* if s.startswith(prefix): s = s[len(prefix):] (main.py:143-144, 153-154)
StripPrefix(s, prefix) ==
    IF startswith(s, prefix) THEN DropFirst(s, Len(prefix)) ELSE s

\* the base64 alphabet A-Z a-z 0-9 + /: the character of a 6-bit value
B64Char(v) ==
    IF v < 26 THEN 65 + v
    ELSE IF v < 52 THEN 97 + (v - 26)
    ELSE IF v < 62 THEN 48 + (v - 52)
    ELSE IF v = 62 THEN 43
    ELSE 47

\* the 6-bit value of a character, 64 for a character outside the alphabet
B64Value(ch) ==
    IF ch >= 65 /\ ch <= 90 THEN ch - 65
    ELSE IF ch >= 97 /\ ch <= 122 THEN ch - 97 + 26
    ELSE IF ch >= 48 /\ ch <= 57 THEN ch - 48 + 52
    ELSE IF ch = 43 THEN 62
    ELSE IF ch = 47 THEN 63
    ELSE 64

\* "="
B64Pad == 61

\* base64.b64encode: three bytes give four characters, a last group of one
\* or two bytes is padded with "="
RECURSIVE b64encode(_)
b64encode(data) ==
    IF Len(data) = 0 THEN <<>>
    ELSE IF Len(data) = 1
    THEN <<B64Char(data[1] \div 4), B64Char((data[1] % 4) * 16),
           B64Pad, B64Pad>>
    ELSE IF Len(data) = 2
    THEN <<B64Char(data[1] \div 4),
           B64Char((data[1] % 4) * 16 + data[2] \div 16),
           B64Char((data[2] % 16) * 4), B64Pad>>
    ELSE <<B64Char(data[1] \div 4),
           B64Char((data[1] % 4) * 16 + data[2] \div 16),
           B64Char((data[2] % 16) * 4 + data[3] \div 64),
           B64Char(data[3] % 64)>>
         \o b64encode(DropFirst(data, 3))

\* the least element of a non-empty set of integers
Least(S) == CHOOSE m \in S : \A k \in S : m <= k

\* binascii.a2b_base64 as base64.b64decode(s) calls it (validate=False).
\* The parse skips every character outside the alphabet, counts the data
\* characters modulo 4 (quad_pos), ends at the "=" that completes the
\* padding of a group of 2 or 3 data characters, and raises when the text
\* ends inside a group.  Every 4 data characters give 3 bytes, a padded
\* group of 2 gives 1 byte and a padded group of 3 gives 2.
a2b_base64(s) ==
    LET kept == SelectSeq(s, LAMBDA ch : ch = B64Pad \/ B64Value(ch) # 64)
        quad_pos(i) ==
            Len(SelectSeq(SubSeq(kept, 1, i - 1),
                          LAMBDA ch : ch # B64Pad)) % 4
        stops == {i \in 1..Len(kept) :
                      /\ kept[i] = B64Pad
                      /\ \/ quad_pos(i) = 3
                         \/ /\ quad_pos(i) = 2
                            /\ i > 1
                            /\ kept[i - 1] = B64Pad}
        parsed == IF stops = {} THEN kept
                  ELSE SubSeq(kept, 1, Least(stops) - 1)
        chars == SelectSeq(parsed, LAMBDA ch : ch # B64Pad)
        n == Len(chars)
        v(k) == B64Value(chars[k])
        size == (n \div 4) * 3
                + (IF n % 4 = 0 THEN 0 ELSE (n % 4) - 1)
        byte(k) ==
            LET g == ((k - 1) \div 3) * 4
            IN  IF (k - 1) % 3 = 0 THEN v(g + 1) * 4 + v(g + 2) \div 16
                ELSE IF (k - 1) % 3 = 1
                THEN (v(g + 2) % 16) * 16 + v(g + 3) \div 4
                ELSE (v(g + 3) % 4) * 64 + v(g + 4)
    IN  IF stops = {} /\ n % 4 # 0
        THEN Raised("binascii.Error")
        ELSE Returned([k \in 1..size |-> byte(k)])

\* base64.b64decode(s) of a str: a non-ASCII character raises ValueError
b64decode(s) ==
    IF \E i \in 1..Len(s) : s[i] > 127
    THEN Raised("ValueError")
    ELSE a2b_base64(s)

\* a UTF-8 continuation byte
IsContinuation(data, i) == i <= Len(data) /\ data[i] >= 128 /\ data[i] <= 191

\* bytes.decode("utf-8") from index i on: a run of ASCII bytes is taken as
\* it is, a sequence of two to four bytes gives one character; a stray,
\* truncated, overlong or out-of-range sequence raises
RECURSIVE utf8_decode(_, _, _)
utf8_decode(data, i, out) ==
    LET high == {j \in i..Len(data) : data[j] >= 128}
        h == Least(high)
        b == data[h]
        text == out \o SubSeq(data, i, h - 1)
    IN  IF high = {} THEN Returned(out \o SubSeq(data, i, Len(data)))
        ELSE IF b >= 194 /\ b <= 223 /\ IsContinuation(data, h + 1)
        THEN utf8_decode(data, h + 2,
                 Append(text, (b - 192) * 64 + (data[h + 1] - 128)))
        ELSE IF /\ b >= 224 /\ b <= 239
                /\ IsContinuation(data, h + 1)
                /\ IsContinuation(data, h + 2)
                /\ (b = 224 => data[h + 1] >= 160)
                /\ (b = 237 => data[h + 1] <= 159)
        THEN utf8_decode(data, h + 3,
                 Append(text, (b - 224) * 4096
                              + (data[h + 1] - 128) * 64
                              + (data[h + 2] - 128)))
        ELSE IF /\ b >= 240 /\ b <= 244
                /\ IsContinuation(data, h + 1)
                /\ IsContinuation(data, h + 2)
                /\ IsContinuation(data, h + 3)
                /\ (b = 240 => data[h + 1] >= 144)
                /\ (b = 244 => data[h + 1] <= 143)
        THEN utf8_decode(data, h + 4,
                 Append(text, (b - 240) * 262144
                              + (data[h + 1] - 128) * 4096
                              + (data[h + 2] - 128) * 64
                              + (data[h + 3] - 128)))
        ELSE Raised("UnicodeDecodeError")

\* JSON whitespace: space, tab, line feed, carriage return
JsonWhitespace == {32, 9, 10, 13}

\* the index of the first character at or after i that is not whitespace
RECURSIVE SkipWhitespace(_, _)
SkipWhitespace(s, i) ==
    IF i <= Len(s) /\ s[i] \in JsonWhitespace
    THEN SkipWhitespace(s, i + 1)
    ELSE i

\* the character a one-letter escape stands for, -1 when it is none of
\* \" \\ \/ \b \f \n \r \t (the texts read here carry no \u escape)
JsonEscape(ch) ==
    IF ch \in {34, 92, 47} THEN ch
    ELSE IF ch = 98 THEN 8
    ELSE IF ch = 102 THEN 12
    ELSE IF ch = 110 THEN 10
    ELSE IF ch = 114 THEN 13
    ELSE IF ch = 116 THEN 9
    ELSE -1

\* a JSON string whose opening quote is at i - 1: its value and the index
\* after its closing quote; a control character, an unknown escape or a
\* missing closing quote fails
RECURSIVE JsonString(_, _, _)
JsonString(s, i, out) ==
    LET special == {j \in i..Len(s) : s[j] \in {34, 92} \/ s[j] < 32}
        j == Least(special)
        text == out \o SubSeq(s, i, j - 1)
        fails == [ok |-> FALSE, value |-> <<>>, next |-> i]
    IN  IF special = {} THEN fails
        ELSE IF s[j] = 34 THEN [ok |-> TRUE, value |-> text, next |-> j + 1]
        ELSE IF s[j] < 32 THEN fails
        ELSE IF j + 1 > Len(s) \/ JsonEscape(s[j + 1]) = -1 THEN fails
        ELSE JsonString(s, j + 2, Append(text, JsonEscape(s[j + 1])))

\* the members of a JSON object after its opening brace, each a string
\* key with a string value: the sequence of <<key, value>> pairs read
RECURSIVE JsonMembers(_, _, _)
JsonMembers(s, i, members) ==
    LET k == SkipWhitespace(s, i)
        key == JsonString(s, k + 1, <<>>)
        colon == SkipWhitespace(s, key.next)
        v == SkipWhitespace(s, colon + 1)
        val == JsonString(s, v + 1, <<>>)
        sep == SkipWhitespace(s, val.next)
    IN  IF k > Len(s) \/ s[k] # 34 \/ ~key.ok THEN Raised("JSONDecodeError")
        ELSE IF colon > Len(s) \/ s[colon] # 58
        THEN Raised("JSONDecodeError")
        ELSE IF v > Len(s) \/ s[v] # 34 \/ ~val.ok
        THEN Raised("JSONDecodeError")
        ELSE IF sep > Len(s) THEN Raised("JSONDecodeError")
        ELSE IF s[sep] = 44
        THEN JsonMembers(s, sep + 1,
                         Append(members, <<key.value, val.value>>))
        ELSE IF s[sep] = 125 /\ SkipWhitespace(s, sep + 1) > Len(s)
        THEN Returned(Append(members, <<key.value, val.value>>))
        ELSE Raised("JSONDecodeError")

\* json.loads on the text of one object whose members are strings
json_loads(s) ==
    LET open == SkipWhitespace(s, 1)
        first == SkipWhitespace(s, open + 1)
    IN  IF open > Len(s) \/ s[open] # 123 THEN Raised("JSONDecodeError")
        ELSE IF first <= Len(s) /\ s[first] = 125
        THEN IF SkipWhitespace(s, first + 1) > Len(s)
             THEN Returned(<<>>)
             ELSE Raised("JSONDecodeError")
        ELSE JsonMembers(s, open + 1, <<>>)

\* metadata[key]: the value of the last member with that key, KeyError
\* when there is none
GetItem(metadata, key) ==
    LET hits == {i \in 1..Len(metadata) : metadata[i][1] = key}
    IN  IF hits = {} THEN Raised("KeyError")
        ELSE Returned(metadata[CHOOSE i \in hits :
                                   \A j \in hits : j <= i][2])

\* BounsBot.get_svg (main.py:139-157) on the text of a token URI
get_svg_text(token_uri) ==
    LET decoded_bytes == b64decode(StripPrefix(token_uri, json_prefix))
    IN  IF decoded_bytes.raised THEN decoded_bytes
        ELSE LET decoded_json == utf8_decode(decoded_bytes.value, 1, <<>>)
             IN  IF decoded_json.raised THEN decoded_json
                 ELSE LET metadata == json_loads(decoded_json.value)
                      IN  IF metadata.raised THEN metadata
                          ELSE LET image_data ==
                                       GetItem(metadata.value, image_key)
                               IN  IF image_data.raised THEN image_data
                                   ELSE b64decode(
                                            StripPrefix(image_data.value,
                                                        svg_prefix))

(***************************************************************************)
(* get_svg on its own: a token URI text is built from a vector buffer the  *)
(* way the token contract builds it, then get_svg is applied.              *)
(***************************************************************************)
\* the longest vector buffer drawn
MaxBufLen == 3

\* byte values at both ends of the range and with every bit pattern of a
\* base64 group: NUL, "<", 0xFB, 0xFF
BufferBytes == {0, 60, 251, 255}

VectorBuffers == UNION {[1..n -> BufferBytes] : n \in 0..MaxBufLen}

\* the separators a JSON serializer puts after a key: ": " and ":"
KeySeparators == {<<58, 32>>, <<58>>}

\* the text of the object {"image": image_data} read at main.py:148-151
MetadataJson(image_data, separator) ==
    <<123, 34>> \o image_key \o <<34>> \o separator
    \o <<34>> \o image_data \o <<34, 125>>

\* the token URI get_svg takes apart (main.py:141-157), put together
BuildTokenURI(buffer, separator) ==
    json_prefix
    \o b64encode(MetadataJson(svg_prefix \o b64encode(buffer), separator))

DecoderInit ==
    /\ pc = "get_svg_call"
    /\ credentials = {}
    /\ constructor_raised = FALSE
    /\ twitter = "None"
    /\ last_noun_id = 0
    /\ current_auction = Unbound
    /\ attempt = 0
    /\ retry_delay = 0
    /\ vector_buffer \in VectorBuffers
    /\ \E separator \in KeySeparators :
           uri = BuildTokenURI(vector_buffer, separator)
    /\ svg_bytes = NoBytes
    /\ png_bytes = NoBytes
    /\ current_time = 1000
    /\ sleep_time = 0
    /\ init_noun_id = 0
    /\ cycle = 0
    /\ poll_result = "none"
    /\ marker_at_poll = 0
    /\ cycle_log = <<>>
    /\ unit_outcome = "none"
    /\ calls = [i \in NounIds |-> NoCalls]

\* svg_bytes = self.get_svg(token_uri) (main.py:229)
CallGetSvg ==
    /\ pc = "get_svg_call"
    /\ LET result == get_svg_text(uri)
       IN  /\ svg_bytes' = result.value
           /\ pc' = IF result.raised
                    THEN "get_svg_raised"
                    ELSE "get_svg_returned"
    /\ UNCHANGED <<vector_buffer, credentials, constructor_raised, twitter,
                   last_noun_id, current_auction, attempt, retry_delay, uri,
                   png_bytes, current_time, sleep_time, init_noun_id, cycle,
                   poll_result, marker_at_poll, cycle_log, unit_outcome,
                   calls>>

DecoderNext == CallGetSvg

DecoderSpec == DecoderInit /\ [][DecoderNext]_vars

(***************************************************************************)
(* Reading the history.                                                    *)
(***************************************************************************)
\* the calls of the latest cycle that are calls of c, in order
CycleCalls(c) == SelectSeq(cycle_log, LAMBDA e : e.call = c)

\* positions of the cycle log
LogIndex == 1..Len(cycle_log)

\* the tokenURI calls of the latest cycle and the failed ones among them
Fetches == CycleCalls("tokenURI")
FailedFetches == SelectSeq(Fetches, LAMBDA e : ~e.ok)

\* the sum of the delays slept between the retries of the latest cycle
RECURSIVE SumDelays(_)
SumDelays(log) ==
    IF log = <<>> THEN 0 ELSE Head(log).delay + SumDelays(Tail(log))

RetrySleepTotal == SumDelays(CycleCalls("sleep"))

\* a unit of the latest cycle has been attempted and left behind
UnitAttempted == unit_outcome # "none"

\* the main loop is between two polls
BetweenPolls == pc \in {"sleep", "poll"}

\* a token URI get_svg cannot decode: bad outer or inner base64, text that
\* is not UTF-8 or not JSON, or no image key
Malformed(u) == u.outer # "ok" \/ ~u.inner_b64_ok

(***************************************************************************)
(* C1.  Once INIT has completed, a poll that raises never ends main_loop:  *)
(* the loop is never left after a failed poll, the first poll included.    *)
(***************************************************************************)
C1_FailedPollNeverEndsLoop ==
    (init_noun_id # -1 /\ poll_result = "failed") => pc # "terminated"

(***************************************************************************)
(* C2.  After the loop has attempted a detected unit, last_noun_id is that *)
(* unit's id whatever the outcome (published, fetch retries exhausted,     *)
(* decode raised), and after INIT the marker changes only in the step that *)
(* ends a unit's attempt.                                                  *)
(***************************************************************************)
C2_MarkerIsAttemptedUnit ==
    /\ [](UnitAttempted => last_noun_id = current_auction.noun_id)
    /\ [][last_noun_id' # last_noun_id =>
              \/ pc = "init"
              \/ /\ pc \in {"fetch", "process"}
                 /\ ~UnitAttempted
                 /\ UnitAttempted'
                 /\ last_noun_id' = current_auction.noun_id]_vars

\* a unit whose five fetches all failed has been passed by the marker
C2_Witness ==
    /\ unit_outcome = "fetch_failed"
    /\ last_noun_id = current_auction.noun_id
    /\ last_noun_id # marker_at_poll

(***************************************************************************)
(* C3 as stated.  Whenever a successful poll returns an id different from  *)
(* the marker, exactly one unit is processed in that cycle, the polled id. *)
(***************************************************************************)
C3_DifferentIdIsProcessed ==
    (BetweenPolls /\ poll_result = "ok"
        /\ current_auction.noun_id # marker_at_poll)
    => /\ UnitAttempted
       /\ Len(Fetches) >= 1
       /\ \A i \in LogIndex : cycle_log[i].id = current_auction.noun_id

(***************************************************************************)
(* C3 amended.  Whenever a successful poll returns an id greater than the  *)
(* marker, exactly one unit is processed in that cycle and it is the       *)
(* polled id: every call of the cycle is made for that id, and the unit    *)
(* passes the decoder and the publish step at most once.  When the poll    *)
(* returns an id lower than the marker, no unit is processed.              *)
(***************************************************************************)
C3_GreaterIdIsProcessed ==
    /\ \A i \in LogIndex : cycle_log[i].id = current_auction.noun_id
    /\ Len(CycleCalls("get_svg")) <= 1
    /\ Len(CycleCalls("post_tweet")) <= 1
    /\ (BetweenPolls /\ poll_result = "ok"
           /\ current_auction.noun_id > marker_at_poll)
       => (UnitAttempted /\ Len(Fetches) >= 1)
    /\ (poll_result = "ok" /\ current_auction.noun_id < marker_at_poll)
       => (~UnitAttempted /\ cycle_log = <<>> /\ BetweenPolls
              /\ last_noun_id = marker_at_poll)

\* a poll jumped over an id: only the polled id was processed
C3_Witness ==
    /\ BetweenPolls
    /\ poll_result = "ok"
    /\ current_auction.noun_id > marker_at_poll + 1
    /\ unit_outcome = "published"
    /\ calls[marker_at_poll + 1] = NoCalls

(***************************************************************************)
(* C4.  When a poll returns the id the marker holds, the cycle processes   *)
(* no unit (no tokenURI, get_svg or publish call) and leaves the marker    *)
(* unchanged.                                                              *)
(***************************************************************************)
C4_SameIdProcessesNothing ==
    (poll_result = "ok" /\ current_auction.noun_id = marker_at_poll)
    => /\ cycle_log = <<>>
       /\ ~UnitAttempted
       /\ BetweenPolls
       /\ last_noun_id = marker_at_poll

\* a unit was processed in an earlier cycle and the latest poll returned
\* the same id again
C4_Witness ==
    /\ pc = "sleep"
    /\ poll_result = "ok"
    /\ current_auction.noun_id = marker_at_poll
    /\ calls[marker_at_poll].started = 1

(***************************************************************************)
(* C5.  Retry success path: when the tokenURI fetch of a unit fails k      *)
(* times (0 <= k <= 4) and then returns, that call is the last fetch of    *)
(* the unit (k + 1 attempts), the retries have slept 2^k - 1 seconds in    *)
(* total (15 for k = 4), and the returned value is the one the decoder is  *)
(* given and the published bytes come from.                                *)
(***************************************************************************)
C5_RetrySuccessPath ==
    /\ \A i \in 1..Len(Fetches) : Fetches[i].ok => i = Len(Fetches)
    /\ (Len(Fetches) >= 1 /\ Fetches[Len(Fetches)].ok)
       => LET k == Len(FailedFetches)
              fetched == Fetches[Len(Fetches)].uri
          IN  /\ k \in 0..4
              /\ Len(Fetches) = k + 1
              /\ RetrySleepTotal = 2^k - 1
              /\ k = 4 => RetrySleepTotal = 1 + 2 + 4 + 8
              /\ uri = fetched
              /\ UnitAttempted => Len(CycleCalls("get_svg")) = 1
              /\ \A i \in LogIndex :
                     /\ cycle_log[i].call = "get_svg"
                        => cycle_log[i].uri = fetched
                     /\ cycle_log[i].call = "post_tweet"
                        => cycle_log[i].bytes.src = fetched.svg

\* four failures, a success on the fifth attempt, and the unit published
C5_Witness ==
    /\ Len(FailedFetches) = 4
    /\ Len(Fetches) = 5
    /\ RetrySleepTotal = 15
    /\ unit_outcome = "published"

(***************************************************************************)
(* C6.  Retry exhaustion: no unit is fetched more than 5 times; when the   *)
(* 5 attempts all fail the unit is abandoned at once, with no decode, no   *)
(* media upload and no post for it, and the loop goes on to its sleep and  *)
(* the next poll.                                                          *)
(***************************************************************************)
C6_RetryExhaustion ==
    /\ Len(Fetches) <= 5
    /\ unit_outcome = "fetch_failed" => Len(FailedFetches) = 5
    /\ Len(FailedFetches) = 5
       => /\ unit_outcome = "fetch_failed"
          /\ BetweenPolls
          /\ current_auction # Unbound
          /\ \A i \in LogIndex : cycle_log[i].call \in {"tokenURI", "sleep"}
          /\ calls[current_auction.noun_id].post_tweet = 0
          /\ calls[current_auction.noun_id].upload_media = 0
          /\ calls[current_auction.noun_id].create_tweet = 0

\* the abandoned unit is behind the loop, which has slept and is about to
\* poll again
C6_Witness ==
    /\ unit_outcome = "fetch_failed"
    /\ Len(FailedFetches) = 5
    /\ pc = "poll"
    /\ sleep_time > 0

(***************************************************************************)
(* C7.  A detected unit whose fetch returns after at most 4 failures and   *)
(* whose URI decodes gets exactly one post_tweet call, made in the cycle   *)
(* that detected it; no id ever gets a second one in a later cycle.        *)
(***************************************************************************)
C7_OnePublishPerUnit ==
    /\ \A i \in NounIds :
           /\ calls[i].post_tweet <= 1
           /\ calls[i].post_tweet = 1 => calls[i].started = 1
    /\ (UnitAttempted /\ Len(Fetches) >= 1 /\ Fetches[Len(Fetches)].ok
           /\ ~Malformed(Fetches[Len(Fetches)].uri))
       => /\ Len(CycleCalls("post_tweet")) = 1
          /\ CycleCalls("post_tweet")[1].id = current_auction.noun_id
          /\ calls[current_auction.noun_id].post_tweet = 1

\* a unit published after failed fetches, while an earlier published unit
\* has stayed at one publish call
C7_Witness ==
    /\ unit_outcome = "published"
    /\ Len(FailedFetches) >= 1
    /\ \E i \in NounIds :
           /\ i < current_auction.noun_id
           /\ calls[i].post_tweet = 1

(***************************************************************************)
(* C8.  Sleep computation: for every snapshot and clock reading,           *)
(* _calculate_sleep_time returns min(end_time - now, 300) when the auction *)
(* is not settled and end_time > now, and 300 otherwise; so 120 for        *)
(* end_time = now + 120, 300 for end_time = now + 1000, and 300 for        *)
(* end_time = now - 10 or a settled auction.                               *)
(***************************************************************************)
Min(a, b) == CHOOSE m \in {a, b} : m <= a /\ m <= b

C8_SleepComputation ==
    pc = "sleep_returned"
    => LET remaining == current_auction.end_time - current_time
           settled == current_auction.settled
       IN  /\ (~settled /\ remaining > 0) => sleep_time = Min(remaining, 300)
           /\ (settled \/ remaining <= 0) => sleep_time = 300
           /\ (~settled /\ remaining = 120) => sleep_time = 120
           /\ (~settled /\ remaining = 1000) => sleep_time = 300
           /\ remaining = -10 => sleep_time = 300

\* an unsettled auction ending in 120 seconds gives a sleep of 120
C8_Witness ==
    /\ pc = "sleep_returned"
    /\ ~current_auction.settled
    /\ current_auction.end_time = current_time + 120
    /\ sleep_time = 120

(***************************************************************************)
(* C9.  Startup policy: the id read at INIT becomes the marker and is not  *)
(* itself processed; no id less than or equal to it is ever detected,      *)
(* fetched or published.                                                   *)
(***************************************************************************)
C9_StartupPolicy ==
    /\ (pc = "poll" /\ cycle = 0) => last_noun_id = init_noun_id
    /\ \A i \in NounIds : i <= init_noun_id => calls[i] = NoCalls
    /\ \A k \in LogIndex : cycle_log[k].id > init_noun_id

\* a later unit has been processed and a poll has since returned an id that
\* is not above the INIT id
C9_Witness ==
    /\ init_noun_id = 1
    /\ calls[2].started = 1
    /\ poll_result = "ok"
    /\ current_auction.noun_id <= init_noun_id
    /\ pc = "poll"

(***************************************************************************)
(* C10.  Decode failure is fatal for the unit and not retried: when        *)
(* get_svg raises on the fetched URI (bad base64, UTF-8 or JSON, or no     *)
(* image key) the unit ends there, with no further tokenURI call, no       *)
(* rasterization, no upload and no post for it, and the loop goes on to    *)
(* its sleep and the next poll.                                            *)
(***************************************************************************)
C10_DecodeFailureAbandonsUnit ==
    /\ (UnitAttempted /\ Len(Fetches) >= 1 /\ Fetches[Len(Fetches)].ok
           /\ Malformed(Fetches[Len(Fetches)].uri))
       => unit_outcome = "decode_failed"
    /\ unit_outcome = "decode_failed"
       => /\ BetweenPolls
          /\ current_auction # Unbound
          /\ Len(CycleCalls("get_svg")) = 1
          /\ cycle_log[Len(cycle_log)].call = "get_svg"
          /\ ~cycle_log[Len(cycle_log)].ok
          /\ \A i \in LogIndex :
                 cycle_log[i].call \in {"tokenURI", "sleep", "get_svg"}
          /\ calls[current_auction.noun_id].post_tweet = 0
          /\ calls[current_auction.noun_id].upload_media = 0
          /\ calls[current_auction.noun_id].create_tweet = 0

\* a URI without an image key was fetched after a retry, the unit was
\* dropped and the loop has come back to polling
C10_Witness ==
    /\ unit_outcome = "decode_failed"
    /\ Len(FailedFetches) >= 1
    /\ Fetches[Len(Fetches)].uri.outer = "no_image"
    /\ pc = "poll"


(***************************************************************************)
(* C11.  The rasterizer never fails: when the SVG-to-PNG conversion        *)
(* raises, svg_to_png returns its input bytes unchanged, and the unit      *)
(* still goes on to the publish step with exactly those bytes.             *)
(***************************************************************************)
C11_RasterizerFallsBack ==
    \A i \in LogIndex :
        (cycle_log[i].call = "svg_to_png" /\ ~cycle_log[i].ok)
        => /\ i < Len(cycle_log)
           /\ cycle_log[i + 1].call = "post_tweet"
           /\ cycle_log[i + 1].bytes = cycle_log[i].bytes
           /\ cycle_log[i].bytes.kind = "vector"
           /\ png_bytes = svg_bytes
           /\ unit_outcome = "published"
           /\ \A j \in LogIndex :
                  cycle_log[j].call = "upload_media"
                  => cycle_log[j].bytes = cycle_log[i].bytes

\* cairosvg raised on a buffer and the vector bytes went to upload_media
C11_Witness ==
    \E i, j \in LogIndex :
        /\ cycle_log[i].call = "svg_to_png"
        /\ ~cycle_log[i].ok
        /\ cycle_log[j].call = "upload_media"
        /\ cycle_log[j].bytes = VectorBytes("not_svg")


(***************************************************************************)
(* C12.  Publish failures are suppressed and do not block progress: when   *)
(* upload_media gives no media handle or the post is not created, nothing  *)
(* propagates out of the publish step (the unit ends without an            *)
(* exception), neither call is made a second time, the marker is advanced  *)
(* to the unit and the loop goes on to its sleep and the next poll.        *)
(***************************************************************************)
PublishFailed ==
    \E i \in LogIndex :
        /\ cycle_log[i].call \in {"upload_media", "create_tweet"}
        /\ ~cycle_log[i].ok

C12_PublishFailureSuppressed ==
    PublishFailed
    => /\ unit_outcome = "published"
       /\ BetweenPolls
       /\ current_auction # Unbound
       /\ last_noun_id = current_auction.noun_id
       /\ last_noun_id > marker_at_poll
       /\ Len(CycleCalls("post_tweet")) = 1
       /\ Len(CycleCalls("upload_media")) = 1
       /\ Len(CycleCalls("create_tweet")) <= 1
       /\ calls[current_auction.noun_id].upload_media = 1
       /\ calls[current_auction.noun_id].create_tweet <= 1

\* the post was refused after a good upload, and the loop has slept and is
\* about to poll again with the marker on that unit
C12_Witness ==
    /\ \E i \in LogIndex :
           cycle_log[i].call = "create_tweet" /\ ~cycle_log[i].ok
    /\ pc = "poll"
    /\ last_noun_id = current_auction.noun_id


(***************************************************************************)
(* C13.  Mock mode is all-or-nothing.                                      *)
(***************************************************************************)
\* the publish step of this cycle made no network call
NoPublishNetworkCall ==
    /\ CycleCalls("upload_media") = <<>>
    /\ CycleCalls("create_tweet") = <<>>
    /\ \A i \in NounIds :
           calls[i].upload_media = 0 /\ calls[i].create_tweet = 0

\* the publish step of this cycle was entered
PublishStepRan == CycleCalls("post_tweet") # <<>>

\* detection, fetch, decode and rasterize ran before the publish step
PipelineRanBeforePublish ==
    /\ calls[current_auction.noun_id].started = 1
    /\ \E i \in LogIndex : cycle_log[i].call = "tokenURI" /\ cycle_log[i].ok
    /\ Len(CycleCalls("get_svg")) = 1
    /\ Len(CycleCalls("svg_to_png")) = 1

C14_DecoderRoundTrip ==
    pc # "get_svg_call"
    => /\ pc = "get_svg_returned"
       /\ svg_bytes = vector_buffer
       /\ startswith(uri, json_prefix)

\* a two-byte buffer, whose base64 text ends in a padding character and
\* holds "+" and "/", came back from get_svg
C14_Witness ==
    /\ pc = "get_svg_returned"
    /\ vector_buffer = <<251, 255>>
    /\ svg_bytes = <<251, 255>>


(***************************************************************************)
(* C15.  Backoff schedule of the fetch of one unit.                        *)
(***************************************************************************)
\* the waits of the retry loop in the latest cycle, in order
RetryWaits ==
    [k \in 1..Len(CycleCalls("sleep")) |-> CycleCalls("sleep")[k].delay]

\* whether the call logged at index i is a tokenURI call that raised
FetchFailedAt(i) == cycle_log[i].call = "tokenURI" /\ ~cycle_log[i].ok

\* C15 as stated: every failed attempt is followed by a wait, and 5 failed
\* attempts wait 1, 2, 4, 8 and 16 seconds
C15_EveryFailureWaits ==
    /\ \A i \in LogIndex :
           FetchFailedAt(i)
           => i < Len(cycle_log) /\ cycle_log[i + 1].call = "sleep"
    /\ Len(FailedFetches) = 5 => RetryWaits = <<1, 2, 4, 8, 16>>

\* C15, amended: every failed attempt except the fifth is followed by a
\* wait of the current delay, after which the delay is doubled, starting
\* at 1 second; the fifth failure ends the fetch with no wait, so a fetch
\* whose 5 attempts all fail performs the waits 1, 2, 4 and 8 seconds.
C15_BackoffSchedule ==
    /\ \A k \in 1..Len(RetryWaits) : RetryWaits[k] = 2^(k - 1)
    /\ \A i \in LogIndex :
           FetchFailedAt(i)
           => LET nth == Len(SelectSeq(SubSeq(cycle_log, 1, i),
                                       LAMBDA e : e.call = "tokenURI"))
              IN  IF nth < 5
                  THEN /\ i < Len(cycle_log)
                       /\ cycle_log[i + 1].call = "sleep"
                       /\ cycle_log[i + 1].delay = 2^(nth - 1)
                  ELSE i = Len(cycle_log)
    /\ \A i \in LogIndex :
           cycle_log[i].call = "sleep" => i > 1 /\ FetchFailedAt(i - 1)
    /\ pc = "fetch" => retry_delay = 2^attempt
    /\ Len(FailedFetches) = 5 => RetryWaits = <<1, 2, 4, 8>>

\* the fifth attempt of a unit failed after the waits 1, 2, 4 and 8
C15_Witness ==
    /\ Len(FailedFetches) = 5
    /\ RetryWaits = <<1, 2, 4, 8>>
    /\ FetchFailedAt(Len(cycle_log))


(***************************************************************************)
(* C16.  No busy loop: every between-poll sleep of the loop, after a       *)
(* successful poll, after a processed unit or after a failed poll, lasts   *)
(* at least 1 and at most 300 seconds; it is never zero or negative.       *)
(***************************************************************************)
\* the loop has computed its sleep and is about to poll again
SleepPerformed == pc = "poll" /\ cycle >= 1

C16_NoBusyLoop ==
    /\ SleepPerformed
       => /\ sleep_time \in 1..max_sleep
          /\ poll_result \in {"ok", "failed"}
          /\ sleep_time = _calculate_sleep_time(current_auction, current_time)
    /\ \A end_time \in SleepEndTimes, now \in SleepClockValues,
          settled \in BOOLEAN :
           _calculate_sleep_time(
               [noun_id |-> 0, amount |-> 0, start_time |-> 0,
                end_time |-> end_time, bidder |-> "0x0",
                settled |-> settled], now) \in 1..max_sleep

\* a failed poll was followed by a sleep computed from an auction that is
\* unsettled and whose end time has passed
C16_Witness ==
    /\ SleepPerformed
    /\ poll_result = "failed"
    /\ ~current_auction.settled
    /\ current_auction.end_time < current_time
    /\ sleep_time = max_sleep


(***************************************************************************)
(* C17.  Retry state is per unit: at the first fetch attempt of every      *)
(* processed unit the attempt count is 0 and the delay is 1 second,        *)
(* whatever number of retries and whatever delay the previously processed  *)
(* unit ended with.                                                        *)
(***************************************************************************)
\* the unit of this cycle is about to make its first tokenURI call
AtFirstFetch == pc = "fetch" /\ Fetches = <<>>

C17_RetryStatePerUnit ==
    /\ AtFirstFetch => attempt = 0 /\ retry_delay = initial_retry_delay
    /\ pc = "fetch" => attempt = Len(FailedFetches)
    /\ Len(CycleCalls("sleep")) >= 1 => CycleCalls("sleep")[1].delay = 1

\* the unit before this one used up its five attempts (its fetch never
\* returned), ending with attempt 4 and a delay of 16, and the unit now
\* starting has a fresh retry state
C17_Witness ==
    /\ AtFirstFetch
    /\ attempt = 0
    /\ retry_delay = 1
    /\ marker_at_poll \in NounIds
    /\ calls[marker_at_poll].tokenURI
    /\ uri = NoURI


(***************************************************************************)
(* C18.  No re-processing across poll cycles: each unit id has its         *)
(* pipeline started in at most one poll cycle, including ids whose fetch   *)
(* used up its retries or whose decode or publish failed; an abandoned     *)
(* unit is never fetched or published in a later cycle.                    *)
(***************************************************************************)
\* the unit id was started and ended without a publish step
Abandoned(i) ==
    /\ calls[i].started = 1
    /\ calls[i].post_tweet = 0
    /\ ~(pc \in {"fetch", "process"} /\ current_auction.noun_id = i)

C18_NoReprocessing ==
    \A i \in NounIds :
        /\ calls[i].started <= 1
        /\ calls[i].post_tweet <= 1
        /\ calls[i].upload_media <= 1
        /\ calls[i].create_tweet <= 1
        /\ Abandoned(i)
           => /\ i <= last_noun_id
              /\ \A k \in LogIndex :
                     cycle_log[k].id = i => unit_outcome # "published"
        /\ (calls[i].started = 1 /\ i <= marker_at_poll)
           => \A k \in LogIndex : cycle_log[k].id # i

\* a unit given up in an earlier cycle is the current auction of a later
\* successful poll, which makes no call for it
C18_Witness ==
    /\ pc = "sleep"
    /\ poll_result = "ok"
    /\ cycle_log = <<>>
    /\ current_auction.noun_id = marker_at_poll
    /\ Abandoned(marker_at_poll)
    /\ calls[marker_at_poll].tokenURI


(***************************************************************************)
(* C19.  The progress marker last_noun_id never decreases: across any      *)
(* sequence of poll results, including polls that return an id lower than  *)
(* the marker and polls that fail, every change of the marker strictly     *)
(* increases it, and a failed poll leaves it unchanged.                    *)
(***************************************************************************)
MarkerStep ==
    /\ last_noun_id' >= last_noun_id
    /\ poll_result' = "failed" => last_noun_id' = last_noun_id
    /\ (cycle' # cycle /\ poll_result' = "ok"
        /\ current_auction'.noun_id < last_noun_id)
       => /\ last_noun_id' = last_noun_id
          /\ pc' = "sleep"
    /\ last_noun_id' # last_noun_id
       => \/ pc = "init"
          \/ /\ pc \in {"fetch", "process"}
             /\ last_noun_id' = current_auction.noun_id
             /\ last_noun_id' > marker_at_poll

C19_MarkerNeverDecreases == [][MarkerStep]_vars

\* after the marker had been advanced past the id read at INIT, a poll
\* returned a lower id and the marker stayed where it was
C19_Witness ==
    /\ pc = "sleep"
    /\ poll_result = "ok"
    /\ current_auction.noun_id < last_noun_id
    /\ last_noun_id = marker_at_poll
    /\ last_noun_id > init_noun_id
    /\ init_noun_id >= 0


(***************************************************************************)
(* C20.  In live mode the publish step is ordered upload-then-post: the    *)
(* post of a unit is attempted only after upload_media returned a media    *)
(* handle for that unit, at most one upload and at most one post call are  *)
(* made per unit, and when the upload fails no post is created.            *)
(***************************************************************************)
C20_UploadThenPost ==
    /\ \A i \in LogIndex :
           cycle_log[i].call = "create_tweet"
           => /\ twitter = "adapter"
              /\ i > 1
              /\ cycle_log[i - 1].call = "upload_media"
              /\ cycle_log[i - 1].ok
              /\ cycle_log[i - 1].id = cycle_log[i].id
    /\ \A i \in LogIndex :
           cycle_log[i].call = "upload_media"
           => /\ twitter = "adapter"
              /\ i > 1
              /\ cycle_log[i - 1].call = "post_tweet"
              /\ cycle_log[i - 1].bytes = cycle_log[i].bytes
              /\ ~cycle_log[i].ok => i = Len(cycle_log)
    /\ Len(CycleCalls("upload_media")) <= 1
    /\ Len(CycleCalls("create_tweet")) <= 1
    /\ \A n \in NounIds :
           /\ calls[n].upload_media <= calls[n].post_tweet
           /\ calls[n].create_tweet <= calls[n].upload_media
           /\ calls[n].upload_media <= 1

\* a live client uploaded the image of a unit and then created its post
C20_Witness ==
    /\ twitter = "adapter"
    /\ Len(cycle_log) >= 2
    /\ cycle_log[Len(cycle_log)].call = "create_tweet"
    /\ cycle_log[Len(cycle_log)].ok
    /\ cycle_log[Len(cycle_log) - 1].call = "upload_media"
    /\ cycle_log[Len(cycle_log) - 1].ok

====
